---- MODULE Spec2Model ----
(***************************************************************************)
(* Release-gating scripts of the repository, as state machines:            *)
(*   scripts/gate_evaluator.py                     (script "gate_evaluator")*)
(*   .github/actions/snyk-code-analysis/snyk_gating.py (script "snyk_gating")*)
(*   scripts/sonar_gating.py                       (script "sonar_gating")  *)
(*   .github/actions/sonar-code-analysis/sonar_gating.py                   *)
(*                                            (script "sonar_code_analysis")*)
(* The files and remote answers a run reads are the environment; they are  *)
(* drawn in the initial state and never change during the run.             *)
(***************************************************************************)
EXTENDS Integers, Sequences, FiniteSets, TLC

\* ------------------------------------------------------------------ bounds
MaxThr == 2
MaxIssues == 3
MaxMetric == 2
MaxDay == 2
MaxParts == 2

\* range(60) of the quality-gate poll loop
PollLimit == 60

\* ------------------------------------------------------------ JSON values
\* A JSON scalar read from a threshold file or a report: an integer, or a
\* string (a rating letter, or any text that int()/float() cannot read).
Num(n) == [num |-> TRUE, n |-> n, s |-> ""]
Str(t) == [num |-> FALSE, n |-> 0, s |-> t]

\* int(v) / float(v) succeed on a number and raise ValueError on such a string.
CanInt(v) == v.num
IntOf(v) == v.n
CanFloat(v) == v.num
FloatOf(v) == v.n

Min(a, b) == IF a <= b THEN a ELSE b
Max(a, b) == IF a >= b THEN a ELSE b

EmptyMap == [k \in {} |-> 0]

\* dict.get(k, d)
Get(m, k, d) == IF k \in DOMAIN m THEN m[k] ELSE d

\* All dicts with keys among K and values in V.
Maps(K, V) == UNION {[D -> V] : D \in SUBSET K}

\* All lists over S of length at most n.
ListsOver(S, n) == UNION {[1..i -> S] : i \in 0..n}

\* --------------------------------------------------------------- severities
Sev == {"critical", "high", "medium", "low"}

\* A missing field (Python None).
None == "<None>"

\* str.lower(), str.upper() and str.strip() on the strings the model feeds in.
Lower(t) ==
  CASE t = "High" -> "high"
    [] t = "CRITICAL" -> "critical"
    [] t = "Medium" -> "medium"
    [] t = "Approved" -> "approved"
    [] t = "APPROVED" -> "approved"
    [] t = "Rejected" -> "rejected"
    [] OTHER -> t

Upper(t) ==
  CASE t = "gates" -> "GATES"
    [] t = "Gates" -> "GATES"
    [] t = "Decision Made" -> "DECISION MADE"
    [] t = "decision made" -> "DECISION MADE"
    [] t = "Pending" -> "PENDING"
    [] OTHER -> t

Strip(t) ==
  CASE t = " GATR-08 " -> "GATR-08"
    [] t = " Approved " -> "Approved"
    [] t = " DECISION MADE " -> "DECISION MADE"
    [] OTHER -> t

\* ----------------------------------------------------------- rule catalog
GATE_INFO ==
  [ g \in {"gatr-01", "gatr-02", "gatr-03", "gatr-07", "gatr-08", "gatr-09",
           "gatr-10", "gatr-14"} |->
      IF g \in {"gatr-08", "gatr-09", "gatr-14"} THEN "ENFORCING"
      ELSE "NON_ENFORCING" ]

\* ---------------------------------------------------------------- state
VARIABLES
  script,            \* which script this run executes
  pc,                \* position of the run in its main()
  thresholds_file,   \* environment: the threshold file(s)
  snyk_dir,          \* environment: the security report
  sonar_dir,         \* environment: the quality report
  thr,               \* main: thr (the four threshold dicts)
  effective_snyk,    \* main: effective_snyk / snyk_gating: thresholds
  effective_sonar,   \* main: effective_sonar
  snyk_counts,       \* main: snyk_counts / snyk_gating: counts
  sonar_metrics,     \* main: sonar_metrics
  snyk_eval,         \* main: snyk_eval / snyk_gating: failed
  sonar_eval,        \* main: sonar_eval
  final_decision,    \* main: final_decision
  output,            \* the decision artifacts written so far
  exit_code,         \* the process exit status, -1 while running
  sonar_api,         \* environment: the quality-gate status source and --wait
  props_file,        \* environment: sonar-project.properties
  args,              \* environment: --branch, --environment, --app-id
  jira_server,       \* environment: the ticket the waiver source holds per gate
  today,             \* environment: datetime.utcnow().date(), as a day number
  polls,             \* sonar_gating: status requests issued so far
  data,              \* sonar_gating main: data
  gate,              \* sonar_gating main: index of the gate block it is at
  r,                 \* sonar_gating main: r08, r09, r14 (status per gate)
  jira,              \* sonar_gating main: jira (the broker's last result)
  disallowed,        \* sonar_gating main: r09["disallowed"]
  queries            \* the ticketing queries issued so far: gate and outcome

vars == <<script, pc, thresholds_file, snyk_dir, sonar_dir, thr, effective_snyk,
          effective_sonar, snyk_counts, sonar_metrics, snyk_eval, sonar_eval,
          final_decision, output, exit_code, sonar_api, props_file, args,
          jira_server, today, polls, data, gate, r, jira, disallowed, queries>>

\* The environment of a run, and the variables of the scripts it is not running.
sgEnv == <<sonar_api, props_file, args, jira_server, today>>
sgVars == <<polls, data, gate, r, jira, disallowed, queries>>
geVars == <<thr, effective_snyk, effective_sonar, snyk_counts, sonar_metrics,
            snyk_eval, sonar_eval, final_decision, output>>
envVars == <<script, thresholds_file, snyk_dir, sonar_dir, sgEnv, sgVars>>
sgFixed == <<script, thresholds_file, snyk_dir, sonar_dir, sgEnv, geVars>>
saFixed == <<script, thresholds_file, snyk_dir, sonar_dir, sgEnv, thr, effective_snyk,
             snyk_counts, snyk_eval, final_decision, output, gate, r, jira,
             disallowed, queries>>

NoEval == [failed |-> FALSE, details |-> EmptyMap]
EmptyThr == [snyk_default |-> EmptyMap, snyk_override |-> EmptyMap,
             sonar_default |-> EmptyMap, sonar_override |-> EmptyMap]

\* An uncaught Python exception: traceback, exit status 1, nothing written.
Crash == /\ pc' = "crashed"
         /\ exit_code' = 1

\* ============================================================ gate_evaluator

\* load_thresholds_paths: the four dicts of the bundle; all empty when the path
\* is neither a directory nor a file; json.load raises on a corrupt file.
load_thresholds_paths(f) ==
  IF f.kind = "bundle"
  THEN [snyk_default |-> f.snyk_default, snyk_override |-> f.snyk_override,
        sonar_default |-> f.sonar_default, sonar_override |-> f.sonar_override]
  ELSE EmptyThr

\* The severity of one issue as load_snyk_issues_from_dir formats it.
FormatSeverity(issue) ==
  IF issue.severity = None THEN "unknown" ELSE Lower(issue.severity)

\* load_snyk_issues_from_dir: the formatted issues of the chosen report.
load_snyk_issues_from_dir(d) ==
  IF d.kind \in {"missing", "empty_dir"} THEN <<>>
  ELSE [i \in 1..Len(d.issues) |->
          [attributes |-> [severity |-> FormatSeverity(d.issues[i])]]]

\* count_by_severity (gate_evaluator): lower-cases again, ignores the rest.
count_by_severity(issues) ==
  [s \in Sev |->
     Cardinality({i \in 1..Len(issues) :
                    Lower(issues[i].attributes.severity) = s})]

\* load_sonar_metrics_from_dir: metric -> float, non-coercible values dropped;
\* a payload that is not an object ("scalar") gives no metric.
load_sonar_metrics_from_dir(d) ==
  IF d.kind \in {"missing", "empty_dir", "scalar"} THEN EmptyMap
  ELSE [k \in {m \in DOMAIN d.metrics : CanFloat(d.metrics[m])} |->
          FloatOf(d.metrics[k])]

\* compute_effective_snyk with the override winning whenever it is present.
compute_effective_snyk_override_wins(defaults, overrides) ==
  [k \in DOMAIN defaults \cup DOMAIN overrides |->
     IF k \in DOMAIN overrides THEN overrides[k] ELSE defaults[k]]

\* compute_effective_snyk
compute_effective_snyk(defaults, overrides) ==
  [k \in DOMAIN defaults \cup DOMAIN overrides |->
     IF k \in DOMAIN defaults
     THEN LET dv == defaults[k]
              ov == Get(overrides, k, dv)
          IN IF CanInt(dv) /\ CanInt(ov)
             THEN Num(Min(IntOf(dv), IntOf(ov)))
             ELSE dv
     ELSE LET ov == overrides[k]
          IN IF CanInt(ov) THEN Num(IntOf(ov)) ELSE ov]

\* compute_effective_sonar
compute_effective_sonar(defaults, overrides) ==
  [k \in DOMAIN defaults \cup DOMAIN overrides |->
     IF k \in DOMAIN defaults
     THEN LET dv == defaults[k]
              ov == Get(overrides, k, dv)
          IN IF CanFloat(dv) /\ CanFloat(ov)
             THEN Num(Max(FloatOf(dv), FloatOf(ov)))
             ELSE dv
     ELSE LET ov == overrides[k]
          IN IF CanFloat(ov) THEN Num(FloatOf(ov)) ELSE ov]

SONAR_HIGHER_IS_BETTER ==
  {"coverage", "security_rating", "reliability_rating", "sqale_rating"}
SONAR_LOWER_IS_BETTER ==
  {"bugs", "vulnerabilities", "code_smells", "duplicated_lines_density",
   "security_hotspots"}

\* 'coverage' in metric or 'rating' in metric, on the metric names of the model.
NamedLikeCoverageOrRating(metric) ==
  metric \in SONAR_HIGHER_IS_BETTER \cup {"new_coverage", "maintainability_rating"}

\* evaluate_snyk raises when int(allowed) does.
evaluate_snyk_raises(effective_thresholds) ==
  \E sev \in Sev : ~CanInt(Get(effective_thresholds, sev, Num(0)))

\* evaluate_snyk
SnykAllowed(effective_thresholds, sev) ==
  IntOf(Get(effective_thresholds, sev, Num(0)))

\* evaluate_snyk with a strict comparison.
SnykOk_strict(found, allowed) == found < allowed

SnykOk(found, allowed) == found <= allowed

evaluate_snyk(counts, effective_thresholds) ==
  LET details == [sev \in Sev |->
                    [found |-> Get(counts, sev, 0),
                     allowed |-> SnykAllowed(effective_thresholds, sev),
                     ok |-> SnykOk(Get(counts, sev, 0),
                                   SnykAllowed(effective_thresholds, sev))]]
  IN [failed |-> \E sev \in Sev : ~details[sev].ok, details |-> details]

\* evaluate_sonar: one metric's entry of details.
SonarDetail(metric, metrics, allowed) ==
  IF metric \notin DOMAIN metrics
  THEN [value |-> -1, ok |-> TRUE, reason |-> "metric not reported"]
  ELSE IF ~CanFloat(allowed)
  THEN [value |-> metrics[metric], ok |-> TRUE, reason |-> "non-numeric"]
  ELSE LET v == metrics[metric]
           a == FloatOf(allowed)
           ok == IF metric \in SONAR_HIGHER_IS_BETTER THEN v >= a
                 ELSE IF metric \in SONAR_LOWER_IS_BETTER THEN v <= a
                 ELSE IF NamedLikeCoverageOrRating(metric) THEN v >= a
                 ELSE v <= a
       IN [value |-> v, ok |-> ok, reason |-> ""]

evaluate_sonar(metrics, effective_thresholds) ==
  LET details == [metric \in DOMAIN effective_thresholds |->
                    SonarDetail(metric, metrics, effective_thresholds[metric])]
  IN [failed |-> \E m \in DOMAIN details : ~details[m].ok, details |-> details]

\* main, line 344-348: thr = load_thresholds_paths(args.thresholds)
GE_LoadThresholds ==
  /\ script = "gate_evaluator" /\ pc = "start"
  /\ IF thresholds_file.kind = "corrupt"
     THEN Crash /\ UNCHANGED thr
     ELSE /\ thr' = load_thresholds_paths(thresholds_file)
          /\ pc' = "thresholds"
          /\ UNCHANGED exit_code
  /\ UNCHANGED <<envVars, effective_snyk, effective_sonar, snyk_counts,
                 sonar_metrics, snyk_eval, sonar_eval, final_decision, output>>

\* main, line 352-353
GE_ComputeEffective ==
  /\ script = "gate_evaluator" /\ pc = "thresholds"
  /\ effective_snyk' = compute_effective_snyk(thr.snyk_default, thr.snyk_override)
  /\ effective_sonar' = compute_effective_sonar(thr.sonar_default, thr.sonar_override)
  /\ pc' = "effective"
  /\ UNCHANGED <<envVars, thr, snyk_counts, sonar_metrics, snyk_eval, sonar_eval,
                 final_decision, output, exit_code>>

\* main, line 357-360: read_json_file raises on an unparseable report, and
\* load_snyk_issues_from_dir calls data.values() on a payload that is neither
\* an object nor a list ("scalar").
GE_LoadReports ==
  /\ script = "gate_evaluator" /\ pc = "effective"
  /\ IF snyk_dir.kind \in {"corrupt", "scalar"} \/ sonar_dir.kind = "corrupt"
     THEN Crash /\ UNCHANGED <<snyk_counts, sonar_metrics>>
     ELSE /\ snyk_counts' = count_by_severity(load_snyk_issues_from_dir(snyk_dir))
          /\ sonar_metrics' = load_sonar_metrics_from_dir(sonar_dir)
          /\ pc' = "loaded"
          /\ UNCHANGED exit_code
  /\ UNCHANGED <<envVars, thr, effective_snyk, effective_sonar, snyk_eval,
                 sonar_eval, final_decision, output>>

\* main, line 362-366
GE_Evaluate ==
  /\ script = "gate_evaluator" /\ pc = "loaded"
  /\ IF evaluate_snyk_raises(effective_snyk)
     THEN Crash /\ UNCHANGED <<snyk_eval, sonar_eval>>
     ELSE /\ snyk_eval' = evaluate_snyk(snyk_counts, effective_snyk)
          /\ sonar_eval' = evaluate_sonar(sonar_metrics, effective_sonar)
          /\ pc' = "evaluated"
          /\ UNCHANGED exit_code
  /\ UNCHANGED <<envVars, thr, effective_snyk, effective_sonar, snyk_counts,
                 sonar_metrics, final_decision, output>>

\* main, line 368-369
ComposeDecision(snyk_failed, sonar_failed) ==
  IF snyk_failed \/ sonar_failed THEN "FAIL" ELSE "PASS"

\* main, line 398: sys.exit( 0)
GE_ExitCode(decision) == 0

\* main, line 368-398: decide, write gate-result.json, exit.
GE_Decide ==
  /\ script = "gate_evaluator" /\ pc = "evaluated"
  /\ final_decision' = ComposeDecision(snyk_eval.failed, sonar_eval.failed)
  /\ output' = Append(output,
                      [ref |-> "", target |-> "",
                       final_decision |-> final_decision',
                       snyk |-> snyk_eval.details,
                       sonar |-> sonar_eval.details])
  /\ exit_code' = GE_ExitCode(final_decision')
  /\ pc' = "done"
  /\ UNCHANGED <<envVars, thr, effective_snyk, effective_sonar, snyk_counts,
                 sonar_metrics, snyk_eval, sonar_eval>>

NextGE ==
  \/ GE_LoadThresholds
  \/ GE_ComputeEffective
  \/ GE_LoadReports
  \/ GE_Evaluate
  \/ GE_Decide

\* ========================================================= render_gate_table

\* main, line 83-97: data["gates"], g["id"] and g["status"] raise KeyError on
\* an artifact that has no such key.
render_gate_table_raises(artifact) ==
  \/ "gates" \notin DOMAIN artifact
  \/ \E i \in DOMAIN artifact.gates :
        "id" \notin DOMAIN artifact.gates[i] \/ "status" \notin DOMAIN artifact.gates[i]

\* main, line 83-97: one table row per gate: its id, its type by the catalog
\* ("Unknown" for an id the catalog does not know) and its status.
render_gate_table(artifact) ==
  [i \in DOMAIN artifact.gates |->
     LET g == artifact.gates[i]
     IN <<g.id, IF g.id \in DOMAIN GATE_INFO THEN GATE_INFO[g.id] ELSE "Unknown",
          g.status>>]

\* =============================================================== snyk_gating

\* load_thresholds: merged = {**default, **project_thresholds}
load_thresholds(default, project_thresholds) ==
  [k \in DOMAIN default \cup DOMAIN project_thresholds |->
     IF k \in DOMAIN project_thresholds THEN project_thresholds[k] ELSE default[k]]

\* load_from_report: issue.get("severity", "unknown"), as written in the report.
load_from_report(d) ==
  [i \in 1..Len(d.issues) |->
     [attributes |->
        [severity |-> IF d.issues[i].severity = None THEN "unknown"
                      ELSE d.issues[i].severity]]]

\* count_by_severity (snyk_gating): `sev in counts`, no case folding.
sk_count_by_severity(issues) ==
  [s \in Sev |->
     Cardinality({i \in 1..Len(issues) : issues[i].attributes.severity = s})]

\* gate_results: `count > allowed` raises TypeError on a string threshold.
gate_results_raises(thresholds) ==
  \E sev \in Sev : ~Get(thresholds, sev, Num(0)).num

Exceeds(count, allowed) == count > allowed

gate_results(counts, thresholds) ==
  \E sev \in Sev : Exceeds(counts[sev], Get(thresholds, sev, Num(0)).n)

\* main, line 185: open() / json.load raise on an absent or corrupt file.
SK_LoadThresholds ==
  /\ script = "snyk_gating" /\ pc = "start"
  /\ IF thresholds_file.kind # "bundle"
     THEN Crash /\ UNCHANGED effective_snyk
     ELSE /\ effective_snyk' = load_thresholds(thresholds_file.snyk_default,
                                               thresholds_file.snyk_override)
          /\ pc' = "thresholds"
          /\ UNCHANGED exit_code
  /\ UNCHANGED <<envVars, thr, effective_sonar, snyk_counts, sonar_metrics,
                 snyk_eval, sonar_eval, final_decision, output>>

\* main, line 188-201: the local report when it exists, else the Snyk API
\* ("api": the API answers with the issues; "missing": the request fails and
\* fetch_snyk_issues calls sys.exit(1)).
SK_LoadIssues ==
  /\ script = "snyk_gating" /\ pc = "thresholds"
  /\ CASE snyk_dir.kind \in {"corrupt", "scalar"} -> Crash /\ UNCHANGED snyk_counts
       [] snyk_dir.kind = "missing" ->
            /\ pc' = "exited"
            /\ exit_code' = 1
            /\ UNCHANGED snyk_counts
       [] OTHER ->
            /\ snyk_counts' = sk_count_by_severity(load_from_report(snyk_dir))
            /\ pc' = "loaded"
            /\ UNCHANGED exit_code
  /\ UNCHANGED <<envVars, thr, effective_snyk, effective_sonar, sonar_metrics,
                 snyk_eval, sonar_eval, final_decision, output>>

\* main, line 208-224
SK_Gate ==
  /\ script = "snyk_gating" /\ pc = "loaded"
  /\ IF gate_results_raises(effective_snyk)
     THEN Crash /\ UNCHANGED snyk_eval
     ELSE /\ snyk_eval' = [failed |-> gate_results(snyk_counts, effective_snyk),
                           details |-> EmptyMap]
          /\ exit_code' = IF snyk_eval'.failed THEN 1 ELSE 0
          /\ pc' = "done"
  /\ UNCHANGED <<envVars, thr, effective_snyk, effective_sonar, snyk_counts,
                 sonar_metrics, sonar_eval, final_decision, output>>

NextSK ==
  \/ SK_LoadThresholds
  \/ SK_LoadIssues
  \/ SK_Gate

\* ============================================================== sonar_gating

\* The gate blocks of main with the first two swapped.
Gates_swapped == <<"gatr-09", "gatr-08", "gatr-14">>

\* main, line 359-391: the gate blocks, in their order.
Gates == <<"gatr-08", "gatr-09", "gatr-14">>

\* The gate_id main passes to evaluate_jira_exception for each gate.
JiraGateId(g) ==
  CASE g = "gatr-08" -> "GATR-08"
    [] g = "gatr-09" -> "GATR-09"
    [] OTHER -> "GATR-14"

\* fetch_json answers of the quality-gate status source.
QgError == [kind |-> "error", status |-> "", blocker |-> FALSE]
QgStatus(st, b) == [kind |-> "ok", status |-> st, blocker |-> b]

\* What the status source answers to the i-th request.
QgAnswer(i) ==
  IF i <= sonar_api.pending THEN QgStatus("NONE", FALSE) ELSE sonar_api.final

\* data.get("projectStatus", {}).get("status", "NONE")
StatusOf(d) == IF d.kind = "ok" THEN d.status ELSE "NONE"

\* evaluate_gatr_08
evaluate_gatr_08(quality_json) ==
  IF StatusOf(quality_json) = "ERROR" /\ quality_json.kind = "ok" /\ quality_json.blocker
  THEN "FAIL" ELSE "PASS"

ALLOWED_PARAMS == {"sonar.coverage.exclusions", "sonar.cpd.exclusions"}
BLOCKED_PARAMS == {"sonar.exclusions", "sonar.skip", "sonar.test.exclusions"}

\* str.startswith("sonar.") on the configuration keys of the model.
StartsWithSonar(key) ==
  key \in ALLOWED_PARAMS \cup BLOCKED_PARAMS \cup {"sonar.projectKey", "sonar.sources"}

\* The keys of the lines a sonar-project.properties of the model can hold: the
\* listed parameters, another scanner parameter, a key of another namespace
\* and a commented-out line.
ParamKeys ==
  ALLOWED_PARAMS \cup BLOCKED_PARAMS \cup {"sonar.projectKey", "project.name", "#sonar.skip"}

\* evaluate_gatr_09: the keys it collects from sonar-project.properties ...
UsedParams(f) == IF f.exists THEN {key \in f.keys : StartsWithSonar(key)} ELSE {}

\* ... and those among them that are on the denylist only.
Disallowed_blocked_only(f) == {key \in UsedParams(f) : key \in BLOCKED_PARAMS}

\* ... and those among them it reports as disallowed.
Disallowed(f) ==
  {key \in UsedParams(f) :
     key \in BLOCKED_PARAMS \/ (StartsWithSonar(key) /\ key \notin ALLOWED_PARAMS)}

evaluate_gatr_09(f) == IF Disallowed(f) # {} THEN "FAIL" ELSE "PASS"

\* A source ref is the sequence of its characters.  Refs are git ref names:
\* they hold no line break, so `$` is the end of the string and `.` any character.
Chars_main == <<"m", "a", "i", "n">>
Chars_release == <<"r", "e", "l", "e", "a", "s", "e", "/">>

\* str.startswith / re.match of a literal at position 0
StartsWith(t, p) == Len(t) >= Len(p) /\ SubSeq(t, 1, Len(p)) = p

\* re.search of a literal: a match at any position
Contains(t, p) ==
  \E i \in 1..(Len(t) + 1) : i + Len(p) - 1 <= Len(t) /\ SubSeq(t, i, i + Len(p) - 1) = p

\* The allowed patterns matched anywhere in the ref.
MatchesAllowed_search(branch) ==
  Contains(branch, Chars_main) \/ Contains(branch, Chars_release)

\* any(re.match(p, branch) for p in [r"^main$", r"^release\/.*$"])
MatchesAllowed(branch) ==
  \/ branch = Chars_main
  \/ StartsWith(branch, Chars_release)

\* evaluate_gatr_14
evaluate_gatr_14(branch, environment) ==
  IF environment \notin {"UAT", "PROD"} THEN "PASS"
  ELSE IF ~MatchesAllowed(branch) THEN "FAIL"
  ELSE "PASS"

\* The verdict of gate g of main.
EvaluateGate(g) ==
  CASE g = "gatr-08" -> evaluate_gatr_08(data)
    [] g = "gatr-09" -> evaluate_gatr_09(props_file)
    [] OTHER -> evaluate_gatr_14(args.branch, args.environment)

\* A ticket field as Jira returns it: absent, a plain string, or a cascading
\* select whose child carries the value.
NoField == [shape |-> "none", v |-> None]
Scalar(t) == [shape |-> "str", v |-> t]
Cascade(t) == [shape |-> "cascade", v |-> t]

\* _extract_custom_value
_extract_custom_value(field) == IF field.shape = "none" THEN None ELSE field.v

\* An expiry date as text: "YYYY-MM-DD", the same followed by a time, or text
\* that strptime cannot read.
DateText(fmt, day) == [fmt |-> fmt, day |-> day]

\* datetime.strptime(expiry_str[:10], "%Y-%m-%d") succeeds / its date.
ParsesAsDate(t) == t.fmt \in {"date", "datetime"}
ParsedDate(t) == t.day

\* A result of evaluate_jira_exception without an "expires" key.
NoDate == -1

\* `expiry_date < today`
Expired_inclusive(expiry_date, day) == expiry_date <= day

Expired(expiry_date, day) == expiry_date < day

\* evaluate_jira_exception, line 252-253: the ticket fields of the rule id and
\* of the application id.
CF_GATE_ID == "customfield_10109"
CF_APPLICATION_ID == "customfield_10109"

\* The application-id check left out.
ApplicationIdMismatch_unchecked(cf_application_id_val, app_id) == FALSE

\* evaluate_jira_exception, line 284: the application-id check.
ApplicationIdMismatch(cf_application_id_val, app_id) ==
  cf_application_id_val = None \/ Strip(cf_application_id_val) # Strip(app_id)

\* The five field checks of evaluate_jira_exception, in its order; the reason
\* of the first that fails, "" when none does.
JiraRejection(ticket, gate_id, app_id, day) ==
  LET project_key == ticket.project
      cf_gate_id_val == _extract_custom_value(ticket[CF_GATE_ID])
      cf_application_id_val == _extract_custom_value(ticket[CF_APPLICATION_ID])
      cf_status_val == _extract_custom_value(ticket.customfield_10106)
      cf_decision_val == _extract_custom_value(ticket.customfield_10110)
  IN IF project_key = None \/ Upper(project_key) # "GATES"
       THEN "Project mismatch"
     ELSE IF cf_gate_id_val = None \/ Strip(cf_gate_id_val) # Strip(gate_id)
       THEN "cf_gate_id mismatch"
     ELSE IF ApplicationIdMismatch(cf_application_id_val, app_id)
       THEN "cf_application_id mismatch"
     ELSE IF cf_status_val = None \/ Upper(cf_status_val) # "DECISION MADE"
       THEN "cf_exception_approval_status is not 'DECISION MADE'"
     ELSE IF cf_decision_val = None \/ Lower(Strip(cf_decision_val)) # "approved"
       THEN "cf_exception_approval_decision is not 'Approved'"
     ELSE IF ticket.customfield_10105.fmt = "none"
       THEN "cf_exception_expiry_date is missing"
     ELSE IF ~ParsesAsDate(ticket.customfield_10105)
       THEN "cf_exception_expiry_date has invalid format"
     ELSE IF Expired(ParsedDate(ticket.customfield_10105), day)
       THEN "Exception expired"
     ELSE ""

\* evaluate_jira_exception: response is what fetch_json returned for the gate.
evaluate_jira_exception(response, gate_id, app_id, day) ==
  IF response.kind \in {"error", "errorMessages"}
  THEN [status |-> "ERROR", reason |-> response.kind, exception_id |-> None,
        expires |-> NoDate]
  ELSE LET why == JiraRejection(response, gate_id, app_id, day)
       IN IF why # ""
          THEN [status |-> "FAIL", reason |-> why, exception_id |-> None,
                expires |-> NoDate]
          ELSE [status |-> "PASS_WITH_EXCEPTION", reason |-> "",
                exception_id |-> response.key,
                expires |-> ParsedDate(response.customfield_10105)]

\* main's test of the broker's result, with anything but a rejection accepted.
WaiverAccepted_unless_fail(result) == result.status # "FAIL"

\* main, line 365: if jira["status"] == "PASS_WITH_EXCEPTION"
WaiverAccepted(result) == result.status = "PASS_WITH_EXCEPTION"

NoJira == [status |-> "", reason |-> "", exception_id |-> None, expires |-> NoDate]

\* main, line 360, 371, 383: a gate whose status is FAIL goes to the broker,
\* here with every gate going to it.
NeedsException_always(status) == TRUE

\* main, line 360, 371, 383: if r08["status"] == "FAIL"
NeedsException(status) == status = "FAIL"

\* The poll loop going through all its rounds whatever the status is.
KeepsPolling_ignores_status(status, n) == n < PollLimit

\* main, line 347-352: after the n-th request the loop goes on when the
\* status is NONE and range(60) is not exhausted.
KeepsPolling(status, n) == status = "NONE" /\ n < PollLimit

\* main, line 345-354: one status request; the loop of --wait goes on while the
\* status is NONE, for at most PollLimit requests.
SG_Poll ==
  /\ script = "sonar_gating" /\ pc = "start"
  /\ polls' = polls + 1
  /\ data' = QgAnswer(polls')
  /\ pc' = IF sonar_api.wait /\ KeepsPolling(StatusOf(data'), polls')
           THEN "start" ELSE "evaluate"
  /\ UNCHANGED <<sgFixed, gate, r, jira, disallowed, queries, exit_code>>

\* main, line 359-360, 370-371, 382-383: evaluate the next gate.
SG_EvaluateGate ==
  /\ script = "sonar_gating" /\ pc = "evaluate"
  /\ r' = [r EXCEPT ![Gates[gate]] = EvaluateGate(Gates[gate])]
  /\ disallowed' = IF Gates[gate] = "gatr-09" THEN Disallowed(props_file)
                   ELSE disallowed
  /\ IF NeedsException(r'[Gates[gate]])
     THEN pc' = "exception" /\ UNCHANGED <<gate, exit_code>>
     ELSE IF gate < Len(Gates)
     THEN pc' = "evaluate" /\ gate' = gate + 1 /\ UNCHANGED exit_code
     ELSE pc' = "done" /\ exit_code' = 0 /\ UNCHANGED gate
  /\ UNCHANGED <<sgFixed, polls, data, jira, queries>>

\* main, line 361-368, 372-380, 384-394: ask the broker about the failed gate;
\* continue on an accepted waiver, sys.exit(2) otherwise.
SG_JiraException ==
  /\ script = "sonar_gating" /\ pc = "exception"
  /\ jira' = evaluate_jira_exception(jira_server[Gates[gate]],
                                     JiraGateId(Gates[gate]), args.app_id, today)
  /\ queries' = Append(queries, [gate |-> Gates[gate], status |-> jira'.status])
  /\ IF WaiverAccepted(jira')
     THEN IF gate < Len(Gates)
          THEN pc' = "evaluate" /\ gate' = gate + 1 /\ UNCHANGED exit_code
          ELSE pc' = "done" /\ exit_code' = 0 /\ UNCHANGED gate
     ELSE pc' = "done" /\ exit_code' = 2 /\ UNCHANGED gate
  /\ UNCHANGED <<sgFixed, polls, data, r, disallowed>>

NextSG ==
  \/ SG_Poll
  \/ SG_EvaluateGate
  \/ SG_JiraException

\* ====================================================== sonar_code_analysis

MetricKeys ==
  {"bugs", "vulnerabilities", "security_hotspots", "code_smells", "coverage",
   "duplicated_lines_density", "security_rating", "reliability_rating", "sqale_rating"}

\* extract_metric: the value of the measure, "0" when there is none.
extract_metric(d, metric_name) ==
  IF metric_name \in DOMAIN d.metrics THEN d.metrics[metric_name] ELSE Str("0")

\* convert_rating: "A".."E" and 1..5 to 1..5, anything else to 5.
convert_rating(value) ==
  IF value.num THEN (IF value.n \in 1..5 THEN value.n ELSE 5)
  ELSE CASE value.s = "A" -> 1 [] value.s = "B" -> 2 [] value.s = "C" -> 3
         [] value.s = "D" -> 4 [] OTHER -> 5

\* load_thresholds: None for an absent or unparseable file, else the project's
\* thresholds when it has any, else the default ones.
sa_load_thresholds(f) ==
  IF f.kind # "bundle" THEN EmptyMap
  ELSE IF f.sonar_override # EmptyMap THEN f.sonar_override
  ELSE f.sonar_default

\* main, line 218-228: the metrics dict handed to compare_metrics.
ExtractedMetrics(d) ==
  [m \in MetricKeys |->
     IF m \in {"security_rating", "reliability_rating", "sqale_rating"}
     THEN Num(convert_rating(extract_metric(d, m)))
     ELSE extract_metric(d, m)]

\* compare_metrics.to_float: float(v), 0.0 when float raises.
to_float(v) == IF v.num THEN v.n ELSE 0

\* compare_metrics: the thresholds it compares raw, with their defaults.
RawThreshold(thresholds, k) ==
  Get(thresholds, k, IF k = "duplicated_lines_density" THEN Num(100) ELSE Num(0))

\* compare_metrics raises TypeError when a number is compared with a string.
compare_metrics_raises(thresholds) ==
  \E k \in {"coverage", "bugs", "vulnerabilities", "security_hotspots",
             "code_smells", "duplicated_lines_density"} :
     ~RawThreshold(thresholds, k).num

\* compare_metrics: fail_reasons
fail_reasons(metrics, thresholds, quality_status) ==
  LET over(k) == to_float(metrics[k]) > RawThreshold(thresholds, k).n
      worse(k) == metrics[k].n > convert_rating(Get(thresholds, k, Str("E")))
  IN {reason \in {"Quality gate failed in SonarQube", "Coverage below threshold",
                  "Too many bugs", "Too many vulnerabilities",
                  "Too many security hotspots", "Too many code smells",
                  "High code duplication", "Security rating below minimum",
                  "Reliability rating below minimum",
                  "Maintainability rating below minimum"} :
        CASE reason = "Quality gate failed in SonarQube" -> quality_status = "ERROR"
          [] reason = "Coverage below threshold" ->
               to_float(metrics["coverage"]) < RawThreshold(thresholds, "coverage").n
          [] reason = "Too many bugs" -> over("bugs")
          [] reason = "Too many vulnerabilities" -> over("vulnerabilities")
          [] reason = "Too many security hotspots" -> over("security_hotspots")
          [] reason = "Too many code smells" -> over("code_smells")
          [] reason = "High code duplication" -> over("duplicated_lines_density")
          [] reason = "Security rating below minimum" -> worse("security_rating")
          [] reason = "Reliability rating below minimum" -> worse("reliability_rating")
          [] OTHER -> worse("sqale_rating")}

\* compare_metrics: 2 when there is a fail reason, else 0.
compare_metrics(metrics, thresholds, quality_status) ==
  IF fail_reasons(metrics, thresholds, quality_status) # {} THEN 2 ELSE 0

\* main, line 191-193: sys.exit(1) without thresholds.
SA_LoadThresholds ==
  /\ script = "sonar_code_analysis" /\ pc = "start"
  /\ effective_sonar' = sa_load_thresholds(thresholds_file)
  /\ IF effective_sonar' = EmptyMap
     THEN pc' = "exited" /\ exit_code' = 1
     ELSE pc' = "thresholds" /\ UNCHANGED exit_code
  /\ UNCHANGED <<saFixed, polls, data, sonar_metrics, sonar_eval>>

\* main, line 195-211: one status request; with --wait the loop goes on while
\* the status is NONE, for at most 60 requests; sys.exit(2) on an error answer.
SA_Poll ==
  /\ script = "sonar_code_analysis" /\ pc = "thresholds"
  /\ polls' = polls + 1
  /\ data' = QgAnswer(polls')
  /\ IF sonar_api.wait /\ KeepsPolling(StatusOf(data'), polls')
     THEN pc' = "thresholds" /\ UNCHANGED exit_code
     ELSE IF data'.kind = "error"
     THEN pc' = "exited" /\ exit_code' = 2
     ELSE pc' = "polled" /\ UNCHANGED exit_code
  /\ UNCHANGED <<saFixed, effective_sonar, sonar_metrics, sonar_eval>>

\* main, line 213-228: sys.exit(2) when the measures cannot be fetched.
SA_FetchMetrics ==
  /\ script = "sonar_code_analysis" /\ pc = "polled"
  /\ IF sonar_dir.kind # "ok"
     THEN pc' = "exited" /\ exit_code' = 2 /\ UNCHANGED sonar_metrics
     ELSE /\ sonar_metrics' = ExtractedMetrics(sonar_dir)
          /\ pc' = "metrics"
          /\ UNCHANGED exit_code
  /\ UNCHANGED <<saFixed, polls, data, effective_sonar, sonar_eval>>

\* main, line 230-231: sys.exit(compare_metrics(...))
SA_Compare ==
  /\ script = "sonar_code_analysis" /\ pc = "metrics"
  /\ IF compare_metrics_raises(effective_sonar)
     THEN Crash /\ UNCHANGED sonar_eval
     ELSE /\ sonar_eval' =
               [failed |-> compare_metrics(sonar_metrics, effective_sonar, data.status) # 0,
                details |-> fail_reasons(sonar_metrics, effective_sonar, data.status)]
          /\ exit_code' = compare_metrics(sonar_metrics, effective_sonar, data.status)
          /\ pc' = "done"
  /\ UNCHANGED <<saFixed, polls, data, effective_sonar, sonar_metrics>>

NextSA ==
  \/ SA_LoadThresholds
  \/ SA_Poll
  \/ SA_FetchMetrics
  \/ SA_Compare

\* ------------------------------------------------------------- environments
\* Source refs: feature/x, release/2.3.0, refs/heads/main, xrelease/1, and
\* every concatenation of at most MaxParts of the pieces main, release/,
\* feature/ and x.
Ref_feature == <<"f", "e", "a", "t", "u", "r", "e", "/">>
Ref_feature_x == Ref_feature \o <<"x">>
Ref_release_230 == Chars_release \o <<"2", ".", "3", ".", "0">>
Ref_refs_heads_main == <<"r", "e", "f", "s", "/", "h", "e", "a", "d", "s", "/">> \o Chars_main
Ref_xrelease_1 == <<"x">> \o Chars_release \o <<"1">>

RefPieces == {Chars_main, Chars_release, Ref_feature, <<"x">>}

RECURSIVE Concats(_)
Concats(n) ==
  IF n = 0 THEN {<<>>}
  ELSE Concats(n - 1) \cup {a \o b : a \in Concats(n - 1), b \in RefPieces}

Refs ==
  (Concats(MaxParts) \ {<<>>}) \cup
  {Ref_feature_x, Ref_release_230, Ref_refs_heads_main, Ref_xrelease_1}

Environments == {"DEV", "QA", "UAT", "PROD", "production", "staging"}

ThrVals == {Num(n) : n \in 0..MaxThr} \cup {Str("abc")}

Bundle(sd, so, qd, qo) ==
  [kind |-> "bundle", snyk_default |-> sd, snyk_override |-> so,
   sonar_default |-> qd, sonar_override |-> qo]

NoFile(k) ==
  [kind |-> k, snyk_default |-> EmptyMap, snyk_override |-> EmptyMap,
   sonar_default |-> EmptyMap, sonar_override |-> EmptyMap]

SnykReport(issues) == [kind |-> "ok", issues |-> issues]
NoSnykReport(k) == [kind |-> k, issues |-> <<>>]

SonarReport(metrics) == [kind |-> "ok", metrics |-> metrics]
NoSonarReport(k) == [kind |-> k, metrics |-> EmptyMap]

Issues(tokens, n) == {[i \in DOMAIN l |-> [severity |-> l[i]]] : l \in ListsOver(tokens, n)}

ProgramInit ==
  /\ pc = "start"
  /\ thr = EmptyThr
  /\ effective_snyk = EmptyMap
  /\ effective_sonar = EmptyMap
  /\ snyk_counts = EmptyMap
  /\ sonar_metrics = EmptyMap
  /\ snyk_eval = NoEval
  /\ sonar_eval = NoEval
  /\ final_decision = ""
  /\ output = <<>>
  /\ exit_code = -1
  /\ polls = 0
  /\ data = QgStatus("NONE", FALSE)
  /\ gate = 1
  /\ r = [g \in {Gates[i] : i \in 1..Len(Gates)} |-> ""]
  /\ jira = NoJira
  /\ disallowed = {}
  /\ queries = <<>>

\* fetch_json answers of the waiver source.
JiraError(k) ==
  [kind |-> k, key |-> None, project |-> None, customfield_10109 |-> NoField,
   customfield_10106 |-> NoField, customfield_10110 |-> NoField,
   customfield_10105 |-> DateText("none", 0)]

Ticket(project, cf09, cf06, cf10, cf05) ==
  [kind |-> "issue", key |-> "GATES-1", project |-> project,
   customfield_10109 |-> cf09, customfield_10106 |-> cf06,
   customfield_10110 |-> cf10, customfield_10105 |-> cf05]

\* The environment of a script that uses neither Sonar's API nor Jira.
NoSonarGating ==
  /\ sonar_api = [wait |-> FALSE, pending |-> 0, final |-> QgError]
  /\ props_file = [exists |-> FALSE, keys |-> {}]
  /\ args = [branch |-> <<>>, environment |-> "", app_id |-> ""]
  /\ jira_server = [g \in {Gates[i] : i \in 1..Len(Gates)} |-> JiraError("error")]
  /\ today = 0

\* The environment of a script that reads no threshold file or report.
NoGateEvaluator ==
  /\ thresholds_file = NoFile("missing")
  /\ snyk_dir = NoSnykReport("missing")
  /\ sonar_dir = NoSonarReport("missing")

\* Runs of gate_evaluator over small inputs on both sides.
Init ==
  /\ script = "gate_evaluator"
  /\ thresholds_file \in
       {NoFile("missing"), NoFile("corrupt")} \cup
       {Bundle(sd, so, qd, qo) :
          sd \in [{"critical", "high"} -> {Num(0), Num(1)}],
          so \in Maps({"critical"}, {Num(0), Num(MaxThr)}),
          qd \in [{"coverage", "bugs"} -> {Num(1)}],
          qo \in Maps({"bugs"}, {Num(0), Num(MaxMetric)})}
  /\ snyk_dir \in
       {NoSnykReport("missing"), NoSnykReport("empty_dir"), NoSnykReport("corrupt"),
        NoSnykReport("scalar")} \cup
       {SnykReport(l) : l \in Issues({"critical", "High"}, MaxIssues)}
  /\ sonar_dir \in
       {NoSonarReport("missing"), NoSonarReport("empty_dir"), NoSonarReport("corrupt"),
        NoSonarReport("scalar")} \cup
       {SonarReport(m) : m \in Maps({"coverage", "bugs"}, {Num(n) : n \in {0, MaxMetric}})}
  /\ NoSonarGating
  /\ ProgramInit

Next == NextGE

Spec == Init /\ [][Next]_vars

\* Security side: both scripts that gate on severity counts, over every pair
\* of default and override (project) threshold sets; no quality inputs.
InitSecurity ==
  /\ script \in {"gate_evaluator", "snyk_gating"}
  /\ thresholds_file \in
       {Bundle(sd, so, EmptyMap, EmptyMap) :
          sd \in Maps({"critical", "high"}, ThrVals),
          so \in Maps({"critical", "high"}, ThrVals)}
  /\ snyk_dir \in
       {NoSnykReport("missing")} \cup
       {SnykReport(l) : l \in Issues({"critical", "high"}, MaxIssues)}
  /\ sonar_dir = NoSonarReport("missing")
  /\ NoSonarGating
  /\ ProgramInit

NextSecurity == NextGE \/ NextSK

SpecSecurity == InitSecurity /\ [][NextSecurity]_vars

\* Quality side: gate_evaluator over every pair of default and override quality
\* threshold sets (ratings as letters or ordinals); no security inputs.
QualityThr(k) ==
  IF k = "security_rating" THEN {Num(1), Num(3), Str("A"), Str("C")}
  ELSE {Num(1), Num(MaxMetric)}

QualityMaps ==
  UNION {{m \in [D -> UNION {QualityThr(k) : k \in D}] :
            \A k \in D : m[k] \in QualityThr(k)} :
         D \in SUBSET {"coverage", "bugs", "security_rating"}}

InitQuality ==
  /\ script = "gate_evaluator"
  /\ thresholds_file \in
       {Bundle(EmptyMap, EmptyMap, qd, qo) : qd \in QualityMaps, qo \in QualityMaps}
  /\ snyk_dir = NoSnykReport("missing")
  /\ sonar_dir \in
       {NoSonarReport("missing")} \cup
       {SonarReport(m) :
          m \in Maps({"coverage", "bugs", "security_rating"}, {Num(1), Num(MaxMetric)})}
  /\ NoSonarGating
  /\ ProgramInit

SpecQuality == InitQuality /\ [][NextGE]_vars

\* Waiver source: sonar_gating runs whose first gate fails, over every ticket
\* the waiver source can hold for it.
Dates ==
  {DateText("none", 0), DateText("garbage", 0)} \cup
  {DateText(f, d) : f \in {"date", "datetime"}, d \in 0..MaxDay}

Tickets ==
  {Ticket(p, g, st, de, dt) :
     p \in {None, "GATES", "gates", "GATR"},
     g \in {NoField, Scalar("GATR-08"), Scalar(" GATR-08 "), Scalar("APP-1")},
     st \in {NoField, Scalar("DECISION MADE"), Cascade("Decision Made"), Scalar("PENDING")},
     de \in {NoField, Scalar("Approved"), Cascade("APPROVED"), Scalar("Rejected")},
     dt \in Dates}

InitJira ==
  /\ script = "sonar_gating"
  /\ NoGateEvaluator
  /\ sonar_api = [wait |-> FALSE, pending |-> 0, final |-> QgStatus("ERROR", TRUE)]
  /\ props_file = [exists |-> FALSE, keys |-> {}]
  /\ args \in {[branch |-> Chars_main, environment |-> "PROD", app_id |-> a] :
                 a \in {"GATR-08", " GATR-08 ", "APP-1"}}
  /\ jira_server \in
       {[g \in {Gates[i] : i \in 1..Len(Gates)} |->
           IF g = "gatr-08" THEN t ELSE JiraError("error")] :
        t \in Tickets \cup {JiraError("error"), JiraError("errorMessages")}}
  /\ today \in 0..MaxDay
  /\ ProgramInit

SpecJira == InitJira /\ [][NextSG]_vars

\* A ticket of the GATES project for gate g: approved and valid through the
\* last day, or rejected.
TicketFor(g, decision) ==
  Ticket("GATES", Scalar(JiraGateId(g)), Scalar("DECISION MADE"), Scalar(decision),
         DateText("date", MaxDay))

JiraAnswers(g) ==
  {JiraError("error"), TicketFor(g, "Approved"), TicketFor(g, "Rejected")}

\* Runs of sonar_gating over the answers of Sonar, the properties file, the
\* branch and environment, and the waiver source.
InitSG ==
  /\ script = "sonar_gating"
  /\ NoGateEvaluator
  /\ sonar_api \in
       {[wait |-> w, pending |-> n, final |-> f] :
          w \in BOOLEAN, n \in {0, 1},
          f \in {QgError, QgStatus("OK", FALSE), QgStatus("ERROR", TRUE),
                 QgStatus("ERROR", FALSE)}}
       \cup {[wait |-> TRUE, pending |-> PollLimit, final |-> QgStatus("ERROR", TRUE)]}
  /\ props_file \in
       {[exists |-> FALSE, keys |-> {}],
        [exists |-> TRUE, keys |-> {"sonar.projectKey", "sonar.coverage.exclusions"}],
        [exists |-> TRUE, keys |-> {"sonar.coverage.exclusions", "project.name"}]}
  /\ args \in
       {[branch |-> b, environment |-> e, app_id |-> a] :
          b \in {Chars_main, Ref_feature_x}, e \in {"DEV", "PROD"},
          a \in {"GATR-08", "GATR-09", "GATR-14"}}
  /\ jira_server \in
       {[g \in {Gates[i] : i \in 1..Len(Gates)} |->
           CASE g = "gatr-08" -> a [] g = "gatr-09" -> b [] OTHER -> c] :
        a \in JiraAnswers("gatr-08"), b \in JiraAnswers("gatr-09"),
        c \in JiraAnswers("gatr-14")}
  /\ today \in {0, MaxDay}
  /\ sonar_api.pending = PollLimit =>
       /\ ~props_file.exists
       /\ args.environment = "DEV"
       /\ today = 0
  /\ ProgramInit

SpecSG == InitSG /\ [][NextSG]_vars

\* Branch policy: sonar_gating runs whose first two gates pass, over every
\* source ref and target environment.
InitBranch ==
  /\ script = "sonar_gating"
  /\ NoGateEvaluator
  /\ sonar_api = [wait |-> FALSE, pending |-> 0, final |-> QgStatus("OK", FALSE)]
  /\ props_file = [exists |-> FALSE, keys |-> {}]
  /\ args \in
       {[branch |-> b, environment |-> e, app_id |-> "GATR-14"] :
          b \in Refs, e \in Environments}
  /\ jira_server \in
       {[g \in {Gates[i] : i \in 1..Len(Gates)} |->
           IF g = "gatr-14" THEN a ELSE JiraError("error")] :
        a \in JiraAnswers("gatr-14")}
  /\ today = 0
  /\ ProgramInit

SpecBranch == InitBranch /\ [][NextSG]_vars

\* Approved parameters: sonar_gating runs whose first gate passes, over every
\* sonar-project.properties.
InitParams ==
  /\ script = "sonar_gating"
  /\ NoGateEvaluator
  /\ sonar_api = [wait |-> FALSE, pending |-> 0, final |-> QgStatus("OK", FALSE)]
  /\ props_file \in
       {[exists |-> FALSE, keys |-> {}]} \cup
       {[exists |-> TRUE, keys |-> K] : K \in SUBSET ParamKeys}
  /\ args = [branch |-> Chars_main, environment |-> "DEV", app_id |-> "GATR-09"]
  /\ jira_server \in
       {[g \in {Gates[i] : i \in 1..Len(Gates)} |->
           IF g = "gatr-09" THEN a ELSE JiraError("error")] :
        a \in JiraAnswers("gatr-09")}
  /\ today = 0
  /\ ProgramInit

SpecParams == InitParams /\ [][NextSG]_vars

\* Quality reports: the two scripts that hold quality metrics against
\* thresholds, over every threshold set and every report with or without a
\* coverage value; no security inputs.
InitReport ==
  /\ script \in {"gate_evaluator", "sonar_code_analysis"}
  /\ thresholds_file \in
       {NoFile("missing"), NoFile("corrupt")} \cup
       {Bundle(EmptyMap, EmptyMap, qd, qo) :
          qd \in QualityMaps, qo \in Maps({"coverage"}, {Num(1), Num(MaxMetric)})}
  /\ snyk_dir = NoSnykReport("missing")
  /\ sonar_dir \in
       {NoSonarReport("missing")} \cup
       {SonarReport(m) :
          m \in Maps({"coverage", "bugs", "security_rating"}, {Num(1), Num(MaxMetric)})}
  /\ sonar_api \in
       {[wait |-> w, pending |-> n, final |-> f] :
          w \in BOOLEAN, n \in {0, 1},
          f \in {QgError, QgStatus("OK", FALSE), QgStatus("ERROR", FALSE)}}
  /\ script = "gate_evaluator" =>
       sonar_api = [wait |-> FALSE, pending |-> 0, final |-> QgError]
  /\ (sonar_api.wait /\ sonar_api.final = QgError) =>
       sonar_dir = NoSonarReport("missing")
  /\ props_file = [exists |-> FALSE, keys |-> {}]
  /\ args = [branch |-> <<>>, environment |-> "", app_id |-> ""]
  /\ jira_server = [g \in {Gates[i] : i \in 1..Len(Gates)} |-> JiraError("error")]
  /\ today = 0
  /\ ProgramInit

NextReport == NextGE \/ NextSA

SpecReport == InitReport /\ [][NextReport]_vars

\* Severity spellings: both scripts that count findings by severity, over
\* reports whose findings spell the severity in lower, upper or mixed case,
\* with a severity outside the four, or without one.
InitSeverity ==
  /\ script \in {"gate_evaluator", "snyk_gating"}
  /\ thresholds_file \in
       {Bundle(sd, EmptyMap, EmptyMap, EmptyMap) :
          sd \in Maps({"critical", "high"}, {Num(MaxThr)})}
  /\ snyk_dir \in
       {NoSnykReport("missing")} \cup
       {SnykReport(l) :
          l \in Issues({"critical", "High", "CRITICAL", "info", None}, MaxIssues)}
  /\ sonar_dir = NoSonarReport("missing")
  /\ NoSonarGating
  /\ ProgramInit

SpecSeverity == InitSeverity /\ [][NextSecurity]_vars

\* Poll loop: the two scripts that wait for the quality-gate status, over
\* status sources that answer NONE a number of times (fewer than, exactly, or
\* more than the loop's rounds) before they answer with a status, an error or
\* NONE again.  A running process keeps taking steps (weak fairness).
InitPoll ==
  /\ script \in {"sonar_gating", "sonar_code_analysis"}
  /\ thresholds_file =
       Bundle(EmptyMap, EmptyMap, [k \in {"coverage"} |-> Num(1)], EmptyMap)
  /\ snyk_dir = NoSnykReport("missing")
  /\ sonar_dir = SonarReport([k \in {"coverage"} |-> Num(MaxMetric)])
  /\ sonar_api \in
       {[wait |-> w, pending |-> n, final |-> f] :
          w \in BOOLEAN,
          n \in {0, 1, 2, PollLimit - 1, PollLimit, PollLimit + 1},
          f \in {QgError, QgStatus("NONE", FALSE), QgStatus("OK", FALSE),
                 QgStatus("ERROR", TRUE)}}
  /\ props_file = [exists |-> FALSE, keys |-> {}]
  /\ args = [branch |-> Chars_main, environment |-> "DEV", app_id |-> "GATR-08"]
  /\ jira_server = [g \in {Gates[i] : i \in 1..Len(Gates)} |-> JiraError("error")]
  /\ today = 0
  /\ ProgramInit

NextPoll == NextSG \/ NextSA

SpecPoll == InitPoll /\ [][NextPoll]_vars /\ WF_vars(NextPoll)

\* ================================================================== claims

\* The rule a severity is gated by (render_gate_table's catalog names them).
SeverityRule(sev) ==
  CASE sev = "high" -> "gatr-01"
    [] sev = "medium" -> "gatr-02"
    [] sev = "critical" -> "gatr-03"
    [] OTHER -> "none"

Enforcing(rule) == rule \in DOMAIN GATE_INFO /\ GATE_INFO[rule] = "ENFORCING"

\* The thresholds have been merged in this run.
Merged ==
  \/ script = "gate_evaluator" /\ pc \in {"effective", "loaded", "evaluated", "done"}
  \/ script = "snyk_gating" /\ pc \in {"thresholds", "loaded", "done", "exited"}

\* The status a rule's verdict has by the catalog: a violated rule is FAIL
\* when enforcing and WARN when not.
VerdictStatus(rule, ok) ==
  IF ok THEN "PASS" ELSE IF Enforcing(rule) THEN "FAIL" ELSE "WARN"

Verdicts ==
  {VerdictStatus(SeverityRule(sev), snyk_eval.details[sev].ok) : sev \in Sev} \cup
  {VerdictStatus("gatr-07", sonar_eval.details[m].ok) : m \in DOMAIN sonar_eval.details}

Composed(V) ==
  IF "FAIL" \in V THEN "FAIL"
  ELSE IF "PASS_WITH_EXCEPTION" \in V THEN "PASS_WITH_EXCEPTION"
  ELSE IF "WARN" \in V THEN "WARN"
  ELSE "PASS"

\* C1: the final decision is the strict-precedence composition of the rule
\* verdicts: FAIL if an enforcing rule is still FAIL, else PASS_WITH_EXCEPTION
\* if any, else WARN if any, else PASS.
C1_Precedence ==
  (script = "gate_evaluator" /\ pc = "done") => final_decision = Composed(Verdicts)

\* C2: the exit status is 1 exactly when the final decision is FAIL, and 0
\* for every other final status.
C2_ExitStatus ==
  (script = "gate_evaluator" /\ pc = "done") =>
     /\ (final_decision = "FAIL") <=> (exit_code = 1)
     /\ (final_decision # "FAIL") <=> (exit_code = 0)

\* C3: compute_effective_snyk gives min(default, override) for a severity
\* defined on both sides and the only value unchanged for a severity defined
\* on one side.
C3_EffectiveSnyk ==
  (script = "gate_evaluator" /\ Merged) =>
     LET d == thr.snyk_default
         o == thr.snyk_override
     IN /\ DOMAIN effective_snyk = DOMAIN d \cup DOMAIN o
        /\ \A k \in DOMAIN d \cap DOMAIN o :
             (d[k].num /\ o[k].num) =>
                /\ effective_snyk[k] \in {d[k], o[k]}
                /\ effective_snyk[k].n <= d[k].n
                /\ effective_snyk[k].n <= o[k].n
        /\ \A k \in DOMAIN d \ DOMAIN o : effective_snyk[k] = d[k]
        /\ \A k \in DOMAIN o \ DOMAIN d : effective_snyk[k] = o[k]

C3_Witness ==
  /\ script = "gate_evaluator" /\ pc = "effective"
  /\ "critical" \in DOMAIN thr.snyk_default \cap DOMAIN thr.snyk_override
  /\ thr.snyk_default["critical"] = Num(2)
  /\ thr.snyk_override["critical"] = Num(1)
  /\ effective_snyk["critical"] = Num(1)
  /\ "high" \in DOMAIN thr.snyk_override \ DOMAIN thr.snyk_default
  /\ effective_snyk["high"] = thr.snyk_override["high"]

\* C4: in every script that merges a default with an override (project)
\* security threshold set, the effective threshold of a severity is at most
\* the default and at most the override.
C4_NeverLoosens ==
  Merged =>
     \A k \in DOMAIN thresholds_file.snyk_default \cap DOMAIN thresholds_file.snyk_override :
        LET dv == thresholds_file.snyk_default[k]
            ov == thresholds_file.snyk_override[k]
        IN (dv.num /\ ov.num) =>
              /\ effective_snyk[k].num
              /\ effective_snyk[k].n <= dv.n
              /\ effective_snyk[k].n <= ov.n

\* convert_rating's reading of a rating bound: A..E and 1..5 as ordinals 1..5.
Ordinal(v) ==
  IF v.num THEN (IF v.n \in 1..5 THEN v.n ELSE 5)
  ELSE CASE v.s = "A" -> 1 [] v.s = "B" -> 2 [] v.s = "C" -> 3
         [] v.s = "D" -> 4 [] OTHER -> 5

RatingMetrics == {"security_rating", "reliability_rating", "sqale_rating"}

\* C5: a rating metric merged by the threshold resolver gets the numerically
\* smaller (better) ordinal of the default and the override.
C5_RatingIsBetterOrdinal ==
  (script = "gate_evaluator" /\ Merged) =>
     \A k \in (DOMAIN thr.sonar_default \cap DOMAIN thr.sonar_override) \cap RatingMetrics :
        Ordinal(effective_sonar[k]) =
          Min(Ordinal(thr.sonar_default[k]), Ordinal(thr.sonar_override[k]))

\* C6: a lower-is-better metric defined in both quality threshold sets
\* resolves as min(default, override); coverage resolves as max.
C6_QualityDirection ==
  (script = "gate_evaluator" /\ Merged) =>
     \A k \in DOMAIN thr.sonar_default \cap DOMAIN thr.sonar_override :
        LET dv == thr.sonar_default[k]
            ov == thr.sonar_override[k]
        IN /\ (k \in SONAR_LOWER_IS_BETTER /\ dv.num /\ ov.num) =>
                effective_sonar[k] = Num(Min(dv.n, ov.n))
           /\ (k = "coverage" /\ dv.num /\ ov.num) =>
                effective_sonar[k] = Num(Max(dv.n, ov.n))

\* The severity rules of the catalog that the run found violated.
ViolatedSeverities ==
  {sev \in Sev : snyk_counts[sev] > Get(effective_snyk, sev, Num(0)).n}

\* C7: a violation of non-enforcing rules alone never makes the final
\* decision FAIL or the exit code non-zero.
C7_NonEnforcingNeverFails ==
  (pc = "done" /\ \A sev \in ViolatedSeverities : ~Enforcing(SeverityRule(sev))) =>
     /\ final_decision # "FAIL"
     /\ exit_code = 0

\* C8: a severity rule is violated exactly when count > threshold, a count
\* equal to the threshold passes, and a severity without an effective
\* threshold is held against 0.
C8_SeverityRule ==
  /\ (script = "gate_evaluator" /\ pc \in {"evaluated", "done"}) =>
        /\ \A sev \in Sev :
             snyk_eval.details[sev].ok <=>
               ~(snyk_counts[sev] > Get(effective_snyk, sev, Num(0)).n)
        /\ snyk_eval.failed <=> (ViolatedSeverities # {})
  /\ (script = "snyk_gating" /\ pc = "done") =>
        (snyk_eval.failed <=> (ViolatedSeverities # {}))

C8_Witness ==
  /\ script = "gate_evaluator" /\ pc = "evaluated"
  /\ "critical" \in DOMAIN effective_snyk
  /\ snyk_counts["critical"] = 2
  /\ effective_snyk["critical"] = Num(2)
  /\ snyk_eval.details["critical"].ok
  /\ "high" \notin DOMAIN effective_snyk
  /\ snyk_counts["high"] = 1
  /\ ~snyk_eval.details["high"].ok

\* The ticketing query main issued last, and the ticket it fetched.
LastQuery == queries[Len(queries)]
LastTicket == jira_server[LastQuery.gate]

\* The ticket's expiry date is a calendar date that is today (UTC) or later.
ExpiryValid(t) ==
  /\ t.customfield_10105.fmt \in {"date", "datetime"}
  /\ t.customfield_10105.day >= today

C10_FailClosed ==
  /\ \A i \in DOMAIN queries :
       LET q == queries[i]
       IN /\ r[q.gate] = "FAIL"
          /\ (q.status = "ERROR") <=>
               (jira_server[q.gate].kind \in {"error", "errorMessages"})
          /\ (q.status # "PASS_WITH_EXCEPTION") =>
               (i = Len(queries) /\ pc = "done" /\ exit_code = 2)
  /\ (script = "sonar_gating" /\ pc = "done" /\ exit_code = 0) =>
       \A g \in DOMAIN r :
          (r[g] = "FAIL") =>
             \E i \in DOMAIN queries :
                queries[i] = [gate |-> g, status |-> "PASS_WITH_EXCEPTION"]

\* A query that failed on the network ended the run at its gate.
C10_Witness ==
  /\ queries # <<>>
  /\ LastQuery = [gate |-> "gatr-09", status |-> "ERROR"]
  /\ jira.status = "ERROR"
  /\ r["gatr-09"] = "FAIL"
  /\ r["gatr-14"] = ""
  /\ pc = "done"
  /\ exit_code = 2

\* The ticket is an approved waiver of the GATES project for the rule and the
\* application of the query, decided, and expiring tomorrow.
ApprovedUntilTomorrow(t, g) ==
  /\ t.kind = "issue"
  /\ t.project = "GATES"
  /\ t.customfield_10109 = Scalar(JiraGateId(g))
  /\ args.app_id = JiraGateId(g)
  /\ t.customfield_10106.v = "DECISION MADE"
  /\ t.customfield_10110.v = "Approved"
  /\ t.customfield_10105 = DateText("date", today + 1)

\* C11: a failing enforcing rule with an approved, decided waiver that expires
\* tomorrow gets the verdict PASS_WITH_EXCEPTION with the ticket id and expiry
\* attached, and the run's final status is PASS_WITH_EXCEPTION.
C11_WaiverScenario ==
  (script = "sonar_gating" /\ pc = "done" /\ queries # <<>>
     /\ Enforcing(LastQuery.gate)
     /\ ApprovedUntilTomorrow(LastTicket, LastQuery.gate)) =>
        /\ jira.exception_id = LastTicket.key
        /\ jira.expires = today + 1
        /\ r[LastQuery.gate] = "PASS_WITH_EXCEPTION"
        /\ final_decision = "PASS_WITH_EXCEPTION"

\* The whole ref is `main`, or the ref is `release/` followed by anything.
WholeRefAllowed(branch) ==
  \/ branch = Chars_main
  \/ \E n \in 0..Len(branch) :
        branch = Chars_release \o SubSeq(branch, Len(branch) - n + 1, Len(branch))

\* C12: outside the protected environments the branch rule passes every ref;
\* in a protected environment it passes exactly the refs that are `main` or
\* start with `release/`, so a ref that only contains one of them fails.
C12_BranchPolicy ==
  (script = "sonar_gating" /\ r["gatr-14"] # "") =>
     /\ (args.environment \notin {"UAT", "PROD"}) => r["gatr-14"] = "PASS"
     /\ (args.environment \in {"UAT", "PROD"}) =>
           /\ r["gatr-14"] \in {"PASS", "FAIL"}
           /\ (r["gatr-14"] = "PASS") <=> WholeRefAllowed(args.branch)
           /\ (args.branch \in {Ref_feature \o Chars_main, Ref_refs_heads_main,
                                 Ref_xrelease_1}) => r["gatr-14"] = "FAIL"

\* A ref that contains `main` without being it fails in PROD.
C12_Witness ==
  /\ script = "sonar_gating" /\ pc = "done"
  /\ args.environment = "PROD"
  /\ args.branch = Ref_feature \o Chars_main
  /\ r["gatr-14"] = "FAIL"
  /\ Len(queries) = 1
  /\ exit_code = 2

\* C13: with target environment "production" the branch rule fails the ref
\* feature/x and passes the ref release/2.3.0.
C13_Production ==
  (script = "sonar_gating" /\ r["gatr-14"] # "" /\ args.environment = "production") =>
     /\ (args.branch = Ref_feature_x) => r["gatr-14"] = "FAIL"
     /\ (args.branch = Ref_release_230) => r["gatr-14"] = "PASS"

\* C14: the pipeline-quality-gate rule fails whenever the quality system
\* reports an overall blocking status (ERROR or FAIL) and passes only when the
\* overall status is not blocking.
C14_QualityGateRule ==
  (script = "sonar_gating" /\ r["gatr-08"] # "") =>
     ((r["gatr-08"] = "FAIL") <=> (StatusOf(data) \in {"ERROR", "FAIL"}))

\* The configuration keys of the scan configuration, and those of them that
\* are on the denylist or in the scanner namespace without being allowlisted.
ConfigKeys == IF props_file.exists THEN props_file.keys ELSE {}
NotApproved ==
  {k \in ConfigKeys :
     k \in BLOCKED_PARAMS \/ (StartsWithSonar(k) /\ k \notin ALLOWED_PARAMS)}

\* C15: the approved-parameters rule fails exactly when some configuration
\* key is denylisted or a non-allowlisted `sonar.` key, passes when every key
\* is allowlisted or there is none, and a FAIL lists exactly those keys.
C15_ApprovedParams ==
  (script = "sonar_gating" /\ r["gatr-09"] # "") =>
     /\ r["gatr-09"] \in {"PASS", "FAIL"}
     /\ (r["gatr-09"] = "FAIL") <=> (NotApproved # {})
     /\ (ConfigKeys \subseteq ALLOWED_PARAMS) => r["gatr-09"] = "PASS"
     /\ (r["gatr-09"] = "FAIL") => disallowed = NotApproved

\* A file with an allowlisted key, a scanner key that is on neither list and
\* a key of another namespace fails, listing the scanner key alone.
C15_Witness ==
  /\ script = "sonar_gating"
  /\ props_file.exists
  /\ props_file.keys = {"sonar.coverage.exclusions", "sonar.projectKey", "project.name"}
  /\ r["gatr-09"] = "FAIL"
  /\ disallowed = {"sonar.projectKey"}

\* The quality report was read and holds no coverage value.
NoCoverageReported == sonar_dir.kind = "ok" /\ "coverage" \notin DOMAIN sonar_dir.metrics

\* C16: when the quality report has no coverage value the coverage comparison
\* is skipped (the metric is not held as 0 against the threshold) and the
\* outcome of the quality rule is not FAIL.
C16_MissingCoverageSkipped ==
  /\ (script = "sonar_code_analysis" /\ pc = "done" /\ NoCoverageReported) =>
        /\ "Coverage below threshold" \notin sonar_eval.details
        /\ ~sonar_eval.failed
        /\ exit_code = 0
  /\ (script = "gate_evaluator" /\ pc = "done" /\ NoCoverageReported) =>
        /\ \A m \in DOMAIN sonar_eval.details : m = "coverage" => sonar_eval.details[m].ok
        /\ ~sonar_eval.failed
        /\ final_decision # "FAIL"

\* C17: with an absent or corrupt threshold file the run aborts with a
\* non-zero exit before any rule is evaluated and before any decision is
\* produced.
C17_ConfigErrorIsFatal ==
  (thresholds_file.kind \in {"missing", "corrupt"}) =>
     /\ pc \in {"start", "crashed", "exited"}
     /\ pc # "start" => exit_code \notin {-1, 0}
     /\ snyk_eval = NoEval /\ sonar_eval = NoEval
     /\ final_decision = ""
     /\ output = <<>>

\* The run has ended, in whatever way.
Terminated == pc \in {"done", "exited", "crashed"}

\* The run got past the loading of its configuration.
ConfigurationLoaded ==
  CASE script = "gate_evaluator" -> thresholds_file.kind # "corrupt" /\ pc # "start"
    [] script = "sonar_gating" -> TRUE
    [] OTHER -> thresholds_file.kind = "bundle" /\ pc # "start"

\* C18: a run that got past configuration loading ends with exactly one
\* decision artifact written and an exit code, also with a missing or
\* malformed report or an unreachable remote source; no error escapes as an
\* uncaught exception or ends the run before the decision is written.
C18_OneArtifact ==
  ConfigurationLoaded =>
     /\ pc # "crashed"
     /\ Len(output) <= 1
     /\ Terminated => (Len(output) = 1 /\ exit_code # -1)

\* The artifact the evaluator wrote.
Artifact == output[Len(output)]

\* The rules the evaluator evaluated: one per severity and one per quality
\* threshold.
EvaluatedRules == Cardinality(Sev) + Cardinality(DOMAIN effective_sonar)

\* C19: the artifact the evaluator writes has the keys final_decision and
\* gates, with one gates entry (id, status) per evaluated rule, so that the
\* renderer accepts it.
C19_ArtifactShape ==
  (script = "gate_evaluator" /\ pc = "done") =>
     /\ Len(output) = 1
     /\ "final_decision" \in DOMAIN Artifact
     /\ "gates" \in DOMAIN Artifact
     /\ ~render_gate_table_raises(Artifact)
     /\ Len(render_gate_table(Artifact)) = EvaluatedRules

\* The gates the run has found failing so far.
FailedGates == {g \in DOMAIN r : r[g] = "FAIL"}

\* C20: the broker is asked only after an enforcing rule has produced FAIL and
\* only about that rule: no query is issued for a rule whose verdict is PASS,
\* no rule is asked about twice, and when the run has ended the number of
\* queries equals the number of enforcing rules that evaluated to FAIL.
C20_BrokerOnlyAfterFail ==
  (script = "sonar_gating") =>
     /\ \A i \in DOMAIN queries :
          /\ queries[i].gate \in FailedGates
          /\ Enforcing(queries[i].gate)
          /\ \A j \in DOMAIN queries : queries[j].gate = queries[i].gate => j = i
     /\ Len(queries) <= Cardinality(FailedGates)
     /\ (pc = "done") => Len(queries) = Cardinality(FailedGates)

\* Two gates failed with a passing gate between them: the broker was asked
\* about the two, in their order, and the second query ended the run.
C20_Witness ==
  /\ script = "sonar_gating" /\ pc = "done"
  /\ r = [g \in DOMAIN r |-> IF g = "gatr-09" THEN "PASS" ELSE "FAIL"]
  /\ Len(queries) = 2
  /\ queries[1] = [gate |-> "gatr-08", status |-> "PASS_WITH_EXCEPTION"]
  /\ queries[2].gate = "gatr-14"
  /\ exit_code = 2

\* The comparator a metric is held to: value >= threshold for coverage,
\* ordinal(value) <= ordinal(threshold) for a rating, value <= threshold for
\* counts and duplication.
WithinThreshold(metric, value, threshold) ==
  IF metric = "coverage" THEN threshold.num /\ value >= threshold.n
  ELSE IF metric \in RatingMetrics THEN Ordinal(Num(value)) <= Ordinal(threshold)
  ELSE threshold.num /\ value <= threshold.n

\* C21: in the quality evaluation every metric that has an effective
\* threshold and is reported is held to its comparator: >= for coverage, <=
\* for counts and duplication, ordinal <= for ratings (a lower ordinal is
\* better).
C21_Comparators ==
  /\ (script = "gate_evaluator" /\ pc \in {"evaluated", "done"}) =>
        \A m \in DOMAIN effective_sonar \cap DOMAIN sonar_metrics :
           sonar_eval.details[m].ok <=>
              WithinThreshold(m, sonar_metrics[m], effective_sonar[m])
  /\ (script = "sonar_code_analysis" /\ pc = "done") =>
        /\ ("coverage" \in DOMAIN effective_sonar \cap DOMAIN sonar_dir.metrics) =>
              (("Coverage below threshold" \in sonar_eval.details) <=>
                 ~WithinThreshold("coverage", sonar_dir.metrics["coverage"].n,
                                  effective_sonar["coverage"]))
        /\ ("bugs" \in DOMAIN effective_sonar \cap DOMAIN sonar_dir.metrics) =>
              (("Too many bugs" \in sonar_eval.details) <=>
                 ~WithinThreshold("bugs", sonar_dir.metrics["bugs"].n,
                                  effective_sonar["bugs"]))
        /\ ("security_rating" \in DOMAIN effective_sonar \cap DOMAIN sonar_dir.metrics) =>
              (("Security rating below minimum" \in sonar_eval.details) <=>
                 ~WithinThreshold("security_rating",
                                  sonar_dir.metrics["security_rating"].n,
                                  effective_sonar["security_rating"]))

\* The quality-gate status query failed or returned no status.
NoGateStatus == data.kind = "error" \/ StatusOf(data) = "NONE"

\* C22: a rule whose input data is entirely missing (no findings source, an
\* empty metrics map, a status query that failed or returned no status) gets
\* the verdict WARN: not FAIL, not PASS, and the run does not crash.
C22_MissingDataWarns ==
  /\ (script = "sonar_gating" /\ r["gatr-08"] # "" /\ NoGateStatus) =>
        r["gatr-08"] = "WARN"
  /\ (script = "gate_evaluator" /\ thresholds_file.kind = "bundle"
        /\ snyk_dir.kind = "missing" /\ sonar_dir.kind = "missing") =>
        /\ pc # "crashed"
        /\ (pc = "done") => final_decision = "WARN"

\* The severity a finding is counted under: its lowercase spelling.
Canonical(severity) == IF severity = None THEN "unknown" ELSE Lower(severity)

\* The findings have been counted in this run.
Counted ==
  /\ snyk_dir.kind = "ok"
  /\ \/ script = "gate_evaluator" /\ pc \in {"loaded", "evaluated", "done"}
     \/ script = "snyk_gating" /\ pc \in {"loaded", "done"}

\* C23: in every counter a finding whose severity is a case variant of
\* critical, high, medium or low is counted under the lowercase severity, a
\* finding with a missing or other severity under none, so the four counts
\* add up to the number of findings with a mappable severity.
C23_CaseInsensitiveCounts ==
  Counted =>
     \A s \in Sev :
        snyk_counts[s] =
          Cardinality({i \in DOMAIN snyk_dir.issues :
                         Canonical(snyk_dir.issues[i].severity) = s})

\* The report is missing, unparseable, or not of the shape its loader expects.
Unreadable(d) == d.kind \in {"missing", "empty_dir", "corrupt", "scalar"}

\* C24: a missing, unparseable or unexpected security or quality payload
\* yields an empty findings list or metrics map and the run goes on to the
\* rule evaluation; it raises no exception and does not exit the process.
C24_MalformedPayloadIsEmpty ==
  (script = "gate_evaluator" /\ thresholds_file.kind # "corrupt") =>
     /\ pc \notin {"crashed", "exited"}
     /\ (pc \in {"loaded", "evaluated", "done"} /\ Unreadable(snyk_dir)) =>
           \A s \in Sev : snyk_counts[s] = 0
     /\ (pc \in {"loaded", "evaluated", "done"} /\ Unreadable(sonar_dir)) =>
           sonar_metrics = EmptyMap

\* The run is in its poll loop / has left it.
Polling ==
  \/ script = "sonar_gating" /\ pc = "start"
  \/ script = "sonar_code_analysis" /\ pc = "thresholds"
PollOver ==
  \/ script = "sonar_gating" /\ pc # "start"
  \/ script = "sonar_code_analysis" /\ pc \notin {"start", "thresholds"}

\* The number of the first response of the status source whose status is not
\* NONE, PollLimit + 1 when there is none among the first PollLimit.
FirstSettled ==
  IF StatusOf(sonar_api.final) # "NONE" /\ sonar_api.pending < PollLimit
  THEN sonar_api.pending + 1 ELSE PollLimit + 1

PollLoopBounded ==
  /\ polls <= PollLimit
  /\ (Polling /\ polls > 0) => StatusOf(data) = "NONE"
  /\ (PollOver /\ sonar_api.wait) => polls = Min(FirstSettled, PollLimit)
  /\ (script = "sonar_gating" /\ PollOver /\ pc # "evaluate") => r["gatr-08"] # ""
  /\ (script = "sonar_code_analysis" /\ Terminated /\ data.kind = "ok") => pc = "done"

\* C25: the poll loop of --wait issues at most 60 status requests, stops at
\* the first response whose status is not NONE, and always ends: after 60
\* pending responses the run goes on to the rule evaluation.
C25_PollLoopTerminates == []PollLoopBounded /\ <>(PollOver /\ Terminated)

\* Sixty pending responses, and the run went on to evaluate the gates.
C25_Witness ==
  /\ script = "sonar_gating" /\ pc = "done"
  /\ sonar_api.wait /\ sonar_api.pending >= PollLimit
  /\ polls = PollLimit
  /\ data = QgStatus("NONE", FALSE)
  /\ r["gatr-14"] = "PASS"
  /\ exit_code = 0

\* C26: a security override that cannot be read as a number does not abort
\* the merge, the effective value of its key is the default value of that
\* key, and the effective set is then evaluated without raising: with every
\* default readable as a number, the run does not end in an exception.
C26_NonNumericOverride ==
  (script = "gate_evaluator") =>
     /\ Merged =>
          \A k \in DOMAIN thr.snyk_override :
             ~CanInt(thr.snyk_override[k]) =>
                /\ k \in DOMAIN effective_snyk
                /\ k \in DOMAIN thr.snyk_default => effective_snyk[k] = thr.snyk_default[k]
     /\ (\A k \in DOMAIN thresholds_file.snyk_default :
            CanInt(thresholds_file.snyk_default[k])) => pc # "crashed"

\* C27: the rule id and the application id are checked against the same
\* ticket field, so the broker answers PASS_WITH_EXCEPTION only to a call whose
\* gate id and application id are equal as trimmed strings; a call with
\* different ids is never answered PASS_WITH_EXCEPTION, whatever the ticket.
C27_SameField ==
  /\ CF_GATE_ID = CF_APPLICATION_ID
  /\ \A i \in DOMAIN queries :
       (queries[i].status = "PASS_WITH_EXCEPTION") =>
          Strip(JiraGateId(queries[i].gate)) = Strip(args.app_id)
  /\ (queries # <<>> /\ Strip(JiraGateId(LastQuery.gate)) # Strip(args.app_id)) =>
       jira.status # "PASS_WITH_EXCEPTION"

\* A waiver of the GATES project, decided, approved and not expired, whose
\* field holds the application id of a call with another gate id: rejected on
\* the rule id.
C27_Witness ==
  /\ queries # <<>>
  /\ args.app_id = "APP-1"
  /\ LastQuery.gate = "gatr-08"
  /\ LastTicket.kind = "issue"
  /\ LastTicket.project = "GATES"
  /\ LastTicket.customfield_10109 = Scalar("APP-1")
  /\ LastTicket.customfield_10106 = Scalar("DECISION MADE")
  /\ LastTicket.customfield_10110 = Scalar("Approved")
  /\ ExpiryValid(LastTicket)
  /\ jira.status = "FAIL"
  /\ jira.reason = "cf_gate_id mismatch"

\* The order of the gates, and whether the waiver of a gate was accepted.
GateOrder == <<"gatr-08", "gatr-09", "gatr-14">>
Accepted(g) ==
  \E i \in DOMAIN queries : queries[i] = [gate |-> g, status |-> "PASS_WITH_EXCEPTION"]
Settled(g) == r[g] = "PASS" \/ (r[g] = "FAIL" /\ Accepted(g))

\* C28: main evaluates gatr-08, gatr-09, gatr-14 in this order and settles a
\* failed gate's waiver before it evaluates the next gate; the first gate
\* that is FAIL without an accepted waiver ends the run with exit code 2 and
\* no later gate is evaluated or queried; the run ends with exit code 0 if
\* and only if each of the three gates is PASS or has an accepted waiver.
C28_GateOrder ==
  (script = "sonar_gating") =>
     /\ \A i \in 2..Len(GateOrder) :
          r[GateOrder[i]] # "" => Settled(GateOrder[i - 1])
     /\ \A i, j \in DOMAIN queries :
          i < j => \E m, n \in 1..Len(GateOrder) :
                      /\ m < n
                      /\ queries[i].gate = GateOrder[m]
                      /\ queries[j].gate = GateOrder[n]
     /\ (pc = "done") =>
          /\ exit_code \in {0, 2}
          /\ (exit_code = 0) <=> (\A i \in 1..Len(GateOrder) : Settled(GateOrder[i]))
          /\ (exit_code = 2) =>
                \E i \in 1..Len(GateOrder) :
                   /\ r[GateOrder[i]] = "FAIL" /\ ~Accepted(GateOrder[i])
                   /\ LastQuery.gate = GateOrder[i]
                   /\ \A j \in (i + 1)..Len(GateOrder) : r[GateOrder[j]] = ""
     /\ (pc # "done") => exit_code = -1

\* The second gate failed and its waiver was rejected: the run ended there,
\* the third gate was never evaluated.
C28_Witness ==
  /\ script = "sonar_gating" /\ pc = "done"
  /\ r = [g \in DOMAIN r |->
            CASE g = "gatr-08" -> "PASS" [] g = "gatr-09" -> "FAIL" [] OTHER -> ""]
  /\ queries = <<[gate |-> "gatr-09", status |-> "FAIL"]>>
  /\ args.environment = "PROD" /\ args.branch = Ref_feature_x
  /\ exit_code = 2

====
